---------------------------- MODULE Spec2Model ----------------------------
(***************************************************************************)
(* Time management of the engine: TimeManagement::clear,                   *)
(* TimeManagement::advance_nodes_time and TimeManagement::init, in the two *)
(* revisions of timeman.cpp the repository holds (src/unnamed/part_000 and *)
(* src/src/timeman.cpp).                                                   *)
(*                                                                         *)
(* Arithmetic.  TimePoint and int values are integers.  A double is held   *)
(* in fixed point, as an integer number of millionths (Micro), so that     *)
(* 0.88 is 880000; the two infinities a double can take here (log10(0)     *)
(* and a division by 0.0) are the values PosInf and NegInf.  Products and  *)
(* quotients are computed without leaving the range of 32-bit integers.    *)
(* A conversion TimePoint(x) truncates toward zero as the C++ conversion   *)
(* does; the conversion of an infinite double is undefined behaviour and   *)
(* is a choice among UBValues.                                             *)
(***************************************************************************)
EXTENDS Integers, Sequences, FiniteSets, TLC

VARIABLES
    rev,                 \* which revision of timeman.cpp is built
    options,             \* the OptionsMap: nodestime, Move Overhead, Ponder
    gamePly,             \* the ply of the position the next init is called at
    optimumTime,         \* TimeManagement::optimumTime
    maximumTime,         \* TimeManagement::maximumTime
    useNodesTime,        \* TimeManagement::useNodesTime
    availableNodes,      \* TimeManagement::availableNodes
    originalTimeAdjust,  \* the caller's double, passed to init by reference
    limits,              \* the caller's Search::LimitsType (the slots of `us`)
    inits,               \* init calls made (bounded)
    advances,            \* advance_nodes_time calls since the last clear (bounded)
    last                 \* the last call made and the values local to it

vars == <<rev, options, gamePly, optimumTime, maximumTime, useNodesTime,
          availableNodes, originalTimeAdjust, limits, inits, advances, last>>

-----------------------------------------------------------------------------
(* Integer helpers *)

Micro == 1000 * 1000

PosInf == 2 * (2 ^ 30 - 1) + 1
NegInf == -PosInf

Min(a, b) == IF a <= b THEN a ELSE b
Max(a, b) == IF a >= b THEN a ELSE b
Abs(a) == IF a < 0 THEN -a ELSE a
Sgn(a) == IF a < 0 THEN -1 ELSE IF a > 0 THEN 1 ELSE 0
IsInf(x) == x = PosInf \/ x = NegInf

\* C++ integer division: the quotient truncated toward zero
TruncDiv(a, b) == Sgn(a) * Sgn(b) * (Abs(a) \div Abs(b))

\* <<floor(r*b/c), (r*b) mod c>> for 0 <= r < c and b >= 0, by halving b
RECURSIVE MulDivMod(_, _, _)
MulDivMod(r, b, c) ==
    IF b = 0 \/ r = 0 THEN <<0, 0>>
    ELSE LET h == MulDivMod(r, b \div 2, c)
             t == 2 * h[2] + (b % 2) * r
         IN  <<2 * h[1] + t \div c, t % c>>

\* a*b/c truncated toward zero, for c > 0; the product is formed directly
\* when it fits
MulDiv(a, b, c) ==
    LET x == Abs(a)
        y == Abs(b)
    IN  IF x = 0 \/ y = 0 THEN 0
        ELSE IF y <= PosInf \div x
             THEN Sgn(a) * Sgn(b) * ((x * y) \div c)
             ELSE Sgn(a) * Sgn(b) * ((x \div c) * y + MulDivMod(x % c, y, c)[1])

\* a*b/Micro rounded down, for 0 <= a < Micro and 0 <= b < 2000 * Micro
Square(a, b) ==
    LET a1 == a \div 1000
        a0 == a % 1000
        b1 == b \div 1000
        b0 == b % 1000
    IN  a1 * b1 + (a1 * b0 + a0 * b1 + (a0 * b0) \div 1000) \div 1000

\* the product of two doubles, truncated toward zero; the larger comes first
MulMicro(a, b) ==
    LET x == Max(Abs(a), Abs(b))
        y == Min(Abs(a), Abs(b))
    IN  Sgn(a) * Sgn(b)
          * ((y \div Micro) * x + (x \div Micro) * (y % Micro)
             + Square(y % Micro, x % Micro))

\* TimePoint(x * t) for a finite double x and an integer |t| <= 2 * Micro
TimesInt(x, t) ==
    LET f == Abs(x) % Micro
        u == Abs(t)
    IN  Sgn(x) * Sgn(t)
          * ((Abs(x) \div Micro) * u
             + (f * (u \div 1000) + (f * (u % 1000)) \div 1000) \div 1000)

\* TimePoint(x) for a finite double x
ToTimePoint(x) == TruncDiv(x, Micro)

\* the first k decimal digits of r/c, for 0 <= r < c
RECURSIVE DecDigits(_, _, _)
DecDigits(r, c, k) ==
    IF k = 0 THEN 0
    ELSE ((10 * r) \div c) * (10 ^ (k - 1)) + DecDigits((10 * r) % c, c, k - 1)

\* the double a / c of two integers a >= 0 and c > 0
IntDivMicro(a, c) == (a \div c) * Micro + DecDigits(a % c, c, 6)

\* number of decimal digits of n >= 1, less one
RECURSIVE Digits(_)
Digits(n) == IF n < 10 THEN 0 ELSE 1 + Digits(n \div 10)

RECURSIVE Pow10(_)
Pow10(k) == IF k = 0 THEN 1 ELSE 10 * Pow10(k - 1)

\* the binary digits k..16 of log10(m / Micro), for Micro <= m < 10 * Micro:
\* square the mantissa, and emit a digit whenever the square passes 10
RECURSIVE LogFrac(_, _)
LogFrac(m, k) ==
    IF k > 16 THEN 0
    ELSE LET sq == MulMicro(m, m)
         IN  IF sq >= 10 * Micro
             THEN Micro \div (2 ^ k) + LogFrac(sq \div 10, k + 1)
             ELSE LogFrac(sq, k + 1)

\* log10 of the mantissas 1.00, 1.01, ... 10.00, indexed 100..1000
LogTable == [i \in 100..1000 |-> IF i = 1000 THEN Micro ELSE LogFrac(i * 10000, 1)]

\* std::log10 of the integer n (as a double): NegInf at 0, and for n >= 1 the
\* table at the three leading digits of n, interpolated over the rest
Log10(n) ==
    IF n = 0 THEN NegInf
    ELSE LET d == Digits(n)
         IN  IF d <= 2
             THEN d * Micro + LogTable[n * Pow10(2 - d)]
             ELSE LET unit == Pow10(d - 2)
                      i == n \div unit
                  IN  d * Micro + LogTable[i]
                        + ((LogTable[i + 1] - LogTable[i]) * (n % unit)) \div unit

-----------------------------------------------------------------------------
(* The constants of timeman.cpp.  The two constants of optConstant are in   *)
(* billionths, the others in millionths.                                    *)

BASE_OPT_CONSTANT == 3211600
OPT_CONSTANT_FACTOR == 321123
MAX_OPT_CONSTANT == 5080170
BASE_MAX_CONSTANT == 3397700
MAX_CONSTANT_FACTOR == 3039500
MIN_MAX_CONSTANT == 2947610

\* std::pow(ply + 2.94693, 0.461073), for the plies 0..40
PowPly(ply) ==
    <<1645939, 1883298, 2089967, 2275126, 2444151, 2600505, 2746573, 2884081,
      3014322, 3138295, 3256792, 3370452, 3479799, 3585271, 3687234, 3786003,
      3881849, 3975006, 4065678, 4154045, 4240269, 4324490, 4406836, 4487422,
      4566350, 4643716, 4719603, 4794090, 4867248, 4939144, 5009836, 5079381,
      5147830, 5215232, 5281631, 5347068, 5411582, 5475210, 5537984, 5599938,
      5661101>>[ply + 1]

\* The values a conversion of an infinite double to TimePoint may produce:
\* stand-ins, within the range of the model's integers, for INT64_MIN and
\* INT64_MAX
UBValues == {-Micro, Micro}

-----------------------------------------------------------------------------
(* The steps of TimeManagement::init *)

\* scaledTime = limits.time[us] / scaleFactor
ScaledTime(time, npmsec) == TruncDiv(time, IF npmsec # 0 THEN npmsec ELSE 1)

\* centiMTG: the move horizon, shortened under one second of scaled time
CentiMTG(movestogo, scaledTime) ==
    LET mtg == IF movestogo # 0 THEN Min(movestogo * 100, 5000) ELSE 5051
    IN  IF scaledTime < 1000
        THEN Min(mtg, TruncDiv(scaledTime * 5051, 1000))
        ELSE mtg

\* timeLeft, floored at 1
TimeLeft(time, inc, centiMTG, moveOverhead) ==
    Max(1, time + TruncDiv(inc * (centiMTG - 100)
                           - moveOverhead * (200 + centiMTG), 100))

\* originalTimeAdjust after the test of its sign
AdjustOnce(adjust, timeLeft) ==
    IF adjust < 0 THEN MulMicro(312800, Log10(timeLeft)) - 435400 ELSE adjust

\* optConstant and maxConstant (TimeConstants), x = log10 of the seconds left
OptConstant(x) ==
    IF x = NegInf THEN NegInf
    ELSE Min(BASE_OPT_CONSTANT + MulMicro(OPT_CONSTANT_FACTOR, x),
             MAX_OPT_CONSTANT)

MaxConstant(x) ==
    IF x = NegInf THEN MIN_MAX_CONSTANT
    ELSE Max(BASE_MAX_CONSTANT + MulMicro(MAX_CONSTANT_FACTOR, x),
             MIN_MAX_CONSTANT)

\* a double times originalTimeAdjust
TimesAdjust(m, adjust) ==
    IF IsInf(m) THEN (IF Sgn(m) * Sgn(adjust) < 0 THEN NegInf ELSE PosInf)
    ELSE MulMicro(m, adjust)

\* ply / 11.9847 and ply / 116.4
PlyOver12(ply) == IntDivMicro(ply * 10000, 119847)
PlyOver116(ply) == IntDivMicro(ply * 10, 1164)

\* the sudden-death branch, given originalTimeAdjust after its assignment and
\* x = logTimeInSec
SuddenDeath(ply, time, timeLeft, adj, x) ==
    [optScale |->
        TimesAdjust(
            Min(IF x = NegInf THEN NegInf
                ELSE 12143 + TruncDiv(MulMicro(PowPly(ply), OptConstant(x)), 1000),
                MulMicro(213035, IntDivMicro(time, timeLeft))),
            adj),
     maxScale |-> Min(6677040, MaxConstant(x) + PlyOver12(ply)),
     originalTimeAdjust |-> adj]

\* the branch of a fixed number of moves to go, were it to calibrate and apply
\* originalTimeAdjust as the sudden-death branch does
MovesToGoAdjusted(ply, time, centiMTG, timeLeft, adjust) ==
    [optScale |->
        TimesAdjust(
            Min(IF centiMTG = 0 THEN PosInf
                ELSE MulDiv(880000 + PlyOver116(ply), 100, centiMTG),
                MulDiv(880000, time, timeLeft)),
            AdjustOnce(adjust, timeLeft)),
     maxScale |-> 1300000 + 1100 * centiMTG,
     originalTimeAdjust |-> AdjustOnce(adjust, timeLeft)]

\* the branch of a fixed number of moves to go
MovesToGo(ply, time, centiMTG, timeLeft, adjust) ==
    [optScale |->
        Min(IF centiMTG = 0 THEN PosInf
            ELSE MulDiv(880000 + PlyOver116(ply), 100, centiMTG),
            MulDiv(880000, time, timeLeft)),
     maxScale |-> 1300000 + 1100 * centiMTG,
     originalTimeAdjust |-> adjust]

\* optScale, maxScale and originalTimeAdjust out of the two branches
Scales(movestogo, ply, time, scaledTime, centiMTG, timeLeft, adjust) ==
    IF movestogo = 0
    THEN SuddenDeath(ply, time, timeLeft, AdjustOnce(adjust, timeLeft),
                     IF scaledTime = 0 THEN NegInf
                     ELSE Log10(scaledTime) - 3 * Micro)
    ELSE MovesToGo(ply, time, centiMTG, timeLeft, adjust)

\* TimePoint(optScale * timeLeft); ub when the product is infinite.  optScale
\* comes out of divisions truncated at the last fixed-point place, which is
\* given back before the product: optScale = 0.88 * time / timeLeft times
\* timeLeft is 0.88 * time again in the double computation.
OptRaw(optScale, timeLeft, ub) ==
    IF IsInf(optScale) THEN ub
    ELSE TimesInt(optScale + Sgn(optScale), timeLeft)

\* TimePoint(std::min(0.825179 * limits.time[us] - moveOverhead, maxScale * optimumTime))
MaxRaw(time, moveOverhead, maxScale, opt) ==
    Min(ToTimePoint(825179 * time - moveOverhead * Micro),
        TimesInt(maxScale, opt))

\* optimumTime before the pondering adjustment, were the cap at 20% of the
\* clock left out
OptimumBoundUncapped(r, time, optRaw) ==
    IF r = "part_000" THEN Max(1, optRaw) ELSE optRaw

\* optimumTime before the pondering adjustment
OptimumBound(r, time, optRaw) ==
    IF r = "part_000"
    THEN Max(1, Min(TruncDiv(20 * time, 100), optRaw))
    ELSE optRaw

\* maximumTime
MaximumBound(r, time, moveOverhead, maxScale, opt) ==
    IF r = "part_000"
    THEN Max(opt, Min(TruncDiv(30 * time, 100),
                      MaxRaw(time, moveOverhead, maxScale, opt)))
    ELSE Max(1, Min(MaxRaw(time, moveOverhead, maxScale, opt) - 10,
                    TruncDiv(20 * time, 100)))

\* if (options["Ponder"]) optimumTime += optimumTime / 4
PonderAdjust(opt, ponder) == IF ponder THEN opt + TruncDiv(opt, 4) ELSE opt

\* availableNodes after `if (availableNodes == -1) availableNodes = npmsec * time`
SeedNodes(avail, npmsec, time) == IF avail = -1 THEN npmsec * time ELSE avail

\* limits after the block, were the increment left in milliseconds
RewriteLimitsKeepInc(lim, npmsec, avail) ==
    IF npmsec # 0
    THEN [lim EXCEPT !.time = avail, !.npmsec = npmsec]
    ELSE lim

\* limits after the block `if (useNodesTime) { ... }`
RewriteLimits(lim, npmsec, avail) ==
    IF npmsec # 0
    THEN [lim EXCEPT !.time = avail, !.inc = lim.inc * npmsec, !.npmsec = npmsec]
    ELSE lim

\* useNodesTime on the early return for limits.time[us] == 0
NoTimeNodesFlag(r, npmsec) == IF r = "part_000" THEN FALSE ELSE npmsec # 0

\* init up to the pondering adjustment: the members, originalTimeAdjust and
\* limits at that point, with the values local to the call.  st holds the
\* members and originalTimeAdjust on entry, lim the caller's limits on entry;
\* ub is what the conversion of an infinite double gives.
InitBounds(r, st, lim, ply, nodestime, moveOverhead, ub) ==
    IF lim.time = 0
    THEN [optimumTime |-> st.optimumTime,
          maximumTime |-> st.maximumTime,
          useNodesTime |-> NoTimeNodesFlag(r, nodestime),
          availableNodes |-> st.availableNodes,
          originalTimeAdjust |-> st.originalTimeAdjust,
          limits |-> lim,
          timed |-> FALSE, scaledTime |-> 0, centiMTG |-> 0, timeLeft |-> 0,
          optScale |-> 0, maxScale |-> 0]
    ELSE LET avail == IF nodestime # 0
                      THEN SeedNodes(st.availableNodes, nodestime, lim.time)
                      ELSE st.availableNodes
             lim1 == RewriteLimits(lim, nodestime, avail)
             scaledTime == ScaledTime(lim1.time, nodestime)
             centiMTG == CentiMTG(lim1.movestogo, scaledTime)
             timeLeft == TimeLeft(lim1.time, lim1.inc, centiMTG, moveOverhead)
             sc == Scales(lim1.movestogo, ply, lim1.time, scaledTime, centiMTG,
                          timeLeft, st.originalTimeAdjust)
             opt == OptimumBound(r, lim1.time, OptRaw(sc.optScale, timeLeft, ub))
         IN  [optimumTime |-> opt,
              maximumTime |-> MaximumBound(r, lim1.time, moveOverhead,
                                           sc.maxScale, opt),
              useNodesTime |-> (nodestime # 0),
              availableNodes |-> avail,
              originalTimeAdjust |-> sc.originalTimeAdjust,
              limits |-> lim1,
              timed |-> TRUE, scaledTime |-> scaledTime, centiMTG |-> centiMTG,
              timeLeft |-> timeLeft, optScale |-> sc.optScale,
              maxScale |-> sc.maxScale]

\* the end of init: the pondering adjustment, on the calls that did not
\* return early
InitResult(b, ponder) ==
    IF b.timed
    THEN [b EXCEPT !.optimumTime = PonderAdjust(b.optimumTime, ponder)]
    ELSE b

\* The values local to init before the pondering adjustment, one for each
\* value the undefined conversion of an infinite optScale * timeLeft may give
InitOutcomes(r, st, lim, ply, opts) ==
    LET one == InitBounds(r, st, lim, ply, opts.nodestime, opts.moveOverhead, 0)
    IN  IF one.timed /\ IsInf(one.optScale)
        THEN {InitBounds(r, st, lim, ply, opts.nodestime, opts.moveOverhead, ub) :
                ub \in UBValues}
        ELSE {one}

\* availableNodes after advance_nodes_time(nodes), were the floor at 0 left out
AdvanceNodesUnfloored(avail, nodes) == avail - nodes

\* availableNodes after advance_nodes_time(nodes)
AdvanceNodes(avail, nodes) == Max(0, avail - nodes)

-----------------------------------------------------------------------------
(* The calls the model makes *)

Revisions == {"part_000", "timeman"}

TimeSet == {0, 1, 30, 1000}
IncSet == {0, 3000}
MovesToGoSet == {0, 2}
PlySet == {0, 30}
NodestimeSet == {0, 2}
OverheadSet == {10, 600}
NodesSet == {1, 3000}

\* init calls the model makes in a game
MaxInits == 2

\* advance_nodes_time calls the model makes between two clear calls
MaxAdvance == 2

\* the sentinel the caller gives originalTimeAdjust at the start of a game
Sentinel == -Micro

NoCall == [op |-> "none", time |-> 0, inc |-> 0, ply |-> 0, nodes |-> 0,
           timed |-> FALSE, scaledTime |-> 0, centiMTG |-> 0, timeLeft |-> 0,
           optScale |-> 0, maxScale |-> 0, optPre |-> 0,
           twinOptimum |-> 0, twinMaximum |-> 0]

Members == [optimumTime |-> optimumTime, maximumTime |-> maximumTime,
            useNodesTime |-> useNodesTime, availableNodes |-> availableNodes,
            originalTimeAdjust |-> originalTimeAdjust]

\* A game starts: the time manager cleared, the sentinel in originalTimeAdjust,
\* the options set
Init ==
    /\ rev \in Revisions
    /\ options \in [nodestime : NodestimeSet, moveOverhead : OverheadSet,
                    ponder : BOOLEAN]
    /\ gamePly \in PlySet
    /\ optimumTime = 0
    /\ maximumTime = 0
    /\ useNodesTime = FALSE
    /\ availableNodes = -1
    /\ originalTimeAdjust = Sentinel
    /\ limits = [time |-> 0, inc |-> 0, movestogo |-> 0, npmsec |-> 0]
    /\ inits = 0
    /\ advances = 0
    /\ last = NoCall

\* TimeManagement::clear()
clear ==
    /\ availableNodes' = -1
    /\ advances' = 0
    /\ last' = [NoCall EXCEPT !.op = "clear"]
    /\ UNCHANGED <<rev, options, gamePly, optimumTime, maximumTime, useNodesTime,
                   originalTimeAdjust, limits, inits>>

\* TimeManagement::advance_nodes_time(nodes), called with useNodesTime set
advance_nodes_time ==
    /\ useNodesTime
    /\ advances < MaxAdvance
    /\ \E nodes \in NodesSet :
          /\ availableNodes' = AdvanceNodes(availableNodes, nodes)
          /\ last' = [NoCall EXCEPT !.op = "advance_nodes_time", !.nodes = nodes]
    /\ advances' = advances + 1
    /\ UNCHANGED <<rev, options, gamePly, optimumTime, maximumTime, useNodesTime,
                   originalTimeAdjust, limits, inits>>

\* TimeManagement::init(limits, us, ply, options, originalTimeAdjust): the
\* caller has put the clock of `us` in limits; the side moves again two plies on
init ==
    /\ inits < MaxInits
    /\ \E time \in TimeSet, inc \in IncSet, movestogo \in MovesToGoSet :
        \E b \in InitOutcomes(rev, Members,
                              [limits EXCEPT !.time = time, !.inc = inc,
                                             !.movestogo = movestogo],
                              gamePly, options) :
            /\ optimumTime' = InitResult(b, options.ponder).optimumTime
            /\ maximumTime' = InitResult(b, options.ponder).maximumTime
            /\ useNodesTime' = b.useNodesTime
            /\ availableNodes' = b.availableNodes
            /\ originalTimeAdjust' = b.originalTimeAdjust
            /\ limits' = b.limits
            /\ last' = [op |-> "init", time |-> time, inc |-> inc,
                        ply |-> gamePly, nodes |-> 0,
                        timed |-> b.timed,
                        scaledTime |-> b.scaledTime,
                        centiMTG |-> b.centiMTG,
                        timeLeft |-> b.timeLeft,
                        optScale |-> b.optScale,
                        maxScale |-> b.maxScale,
                        optPre |-> b.optimumTime,
                        twinOptimum |-> InitResult(b, ~options.ponder).optimumTime,
                        twinMaximum |-> InitResult(b, ~options.ponder).maximumTime]
    /\ gamePly' = gamePly + 2
    /\ inits' = inits + 1
    /\ UNCHANGED <<rev, options, advances>>

Next == clear \/ advance_nodes_time \/ init

Spec == Init /\ [][Next]_vars

-----------------------------------------------------------------------------
(* The claims.  A call of init is "timed" when it passed the test of        *)
(* limits.time[us] == 0, that is when last.time # 0.                        *)

TimedInit == last.op = "init" /\ last.time # 0

\* optimum() and maximum() of the call with Ponder on, and with Ponder off
OptimumOn == IF options.ponder THEN optimumTime ELSE last.twinOptimum
OptimumOff == IF options.ponder THEN last.twinOptimum ELSE optimumTime
MaximumOn == IF options.ponder THEN maximumTime ELSE last.twinMaximum
MaximumOff == IF options.ponder THEN last.twinMaximum ELSE maximumTime

\* C1: after every init call with non-zero remaining time,
\* maximum() >= optimum() >= 1.
C1_MaximumAtLeastOptimum ==
    TimedInit => (maximumTime >= optimumTime /\ optimumTime >= 1)

\* C2: with Ponder on, optimum() is strictly greater than with Ponder
\* off, by exactly 25%, and maximum() is not below the inflated optimum().
C2_PonderingQuarter ==
    TimedInit => /\ OptimumOn > OptimumOff
                 /\ 4 * OptimumOn = 5 * OptimumOff
                 /\ MaximumOn >= OptimumOn

\* C3 as stated: after every timed init, the optimum before the pondering
\* adjustment is at most 0.20 x limits.time[us] and maximum() at most
\* 0.30 x limits.time[us].
C3_FractionCaps ==
    TimedInit => /\ 100 * last.optPre <= 20 * limits.time
                 /\ 100 * maximumTime <= 30 * limits.time

\* C3 as amended: maximum() is at most the larger of 1 and 0.30 x
\* limits.time[us]; and in the revision that clamps the optimum (part_000) the
\* optimum before the pondering adjustment is at most the larger of 1 and
\* 0.20 x limits.time[us].
C3_FractionCapsFloored ==
    TimedInit => /\ maximumTime <= Max(1, (30 * limits.time) \div 100)
                 /\ rev = "part_000"
                      => last.optPre <= Max(1, (20 * limits.time) \div 100)

\* C3, witness: a timed call of the clamping revision in which the 20% cap is
\* what bounds the optimum
C3_Witness ==
    /\ TimedInit
    /\ rev = "part_000"
    /\ limits.time = 1000
    /\ last.optPre = 200
    /\ TimesInt(last.optScale, last.timeLeft) > 200

\* C4: an init call with limits.time[us] == 0 returns with useNodesTime false
\* and leaves optimumTime and maximumTime as they were.
C4_NoTimeControl ==
    [][(last'.op = "init" /\ last'.time = 0)
         => /\ useNodesTime' = FALSE
            /\ optimumTime' = optimumTime
            /\ maximumTime' = maximumTime]_vars

\* C5: with nodestime set, a timed init that finds availableNodes at -1 leaves
\* it at nodestime x the remaining time; advance_nodes_time(n) on a seeded
\* budget takes n off it when n is less, and leaves 0 otherwise.
C5_NodeBudget ==
    [][/\ (last'.op = "init" /\ last'.time # 0 /\ options.nodestime # 0
             /\ availableNodes = -1)
          => availableNodes' = options.nodestime * last'.time
       /\ (last'.op = "advance_nodes_time" /\ availableNodes >= 0)
          => availableNodes' = IF last'.nodes < availableNodes
                               THEN availableNodes - last'.nodes
                               ELSE 0]_vars

\* C5, witness: the budget seeded from a clock of 1000 and advanced by 1 node
C5_Witness ==
    /\ last.op = "advance_nodes_time"
    /\ last.nodes = 1
    /\ options.nodestime # 0
    /\ limits.time = options.nodestime * 1000
    /\ availableNodes = limits.time - 1

\* C6: once a sudden-death init has assigned originalTimeAdjust, every later
\* sudden-death init of the game leaves it unchanged.
C6_AdjustComputedOnce ==
    [][(last'.op = "init" /\ last'.time # 0 /\ limits'.movestogo = 0
          /\ originalTimeAdjust # Sentinel)
         => originalTimeAdjust' = originalTimeAdjust]_vars

\* C7: availableNodes is -1 or non-negative, advance_nodes_time never
\* increases it, and init assigns it only when it is -1 on entry.
C7_BudgetMonotone ==
    [][/\ availableNodes' = -1 \/ availableNodes' >= 0
       /\ last'.op = "advance_nodes_time" => availableNodes' <= availableNodes
       /\ (last'.op = "init" /\ availableNodes # -1)
          => availableNodes' = availableNodes]_vars

\* C8: in every timed init no division has a zero divisor: timeLeft >= 1, and
\* centiMTG > 0 where the moves-to-go branch divides by centiMTG / 100.
C8_NoZeroDivisor ==
    TimedInit => /\ last.timeLeft >= 1
                 /\ limits.movestogo # 0 => last.centiMTG > 0

\* values of originalTimeAdjust to run the scale factors on
AdjustSamples == {Sentinel, -435400, 0, 401865, 1277417}

\* C9: an init call with moves-to-go > 0 leaves originalTimeAdjust untouched,
\* and its optScale and maxScale are the same for every originalTimeAdjust.
C9_MovesToGoIgnoresAdjust ==
    [][(last'.op = "init" /\ limits'.movestogo > 0)
         => /\ originalTimeAdjust' = originalTimeAdjust
            /\ last'.timed =>
                 \A a \in AdjustSamples :
                    /\ Scales(limits'.movestogo, last'.ply, limits'.time,
                              last'.scaledTime, last'.centiMTG, last'.timeLeft,
                              a).optScale = last'.optScale
                    /\ Scales(limits'.movestogo, last'.ply, limits'.time,
                              last'.scaledTime, last'.centiMTG, last'.timeLeft,
                              a).maxScale = last'.maxScale]_vars

\* C9, witness: a timed moves-to-go init entered after a sudden-death init had
\* computed originalTimeAdjust
C9_Witness ==
    /\ TimedInit
    /\ inits = 2
    /\ limits.movestogo > 0
    /\ originalTimeAdjust > 0
    /\ last.optScale > 0

\* C10: a timed init with nodestime r # 0 returns with limits.time[us] equal to
\* availableNodes, limits.inc[us] r times what it was and limits.npmsec equal
\* to r; with nodestime 0, init changes none of the three, nor availableNodes.
C10_LimitsRewrite ==
    [][last'.op = "init"
         => /\ (last'.time # 0 /\ options.nodestime # 0)
               => /\ limits'.time = availableNodes'
                  /\ limits'.inc = options.nodestime * last'.inc
                  /\ limits'.npmsec = options.nodestime
            /\ options.nodestime = 0
               => /\ limits'.time = last'.time
                  /\ limits'.inc = last'.inc
                  /\ limits'.npmsec = limits.npmsec
                  /\ availableNodes' = availableNodes]_vars

\* C10, witness: a timed init under nodestime, with an increment, that wrote
\* an advanced budget over the clock
C10_Witness ==
    /\ TimedInit
    /\ options.nodestime # 0
    /\ last.inc # 0
    /\ limits.inc = options.nodestime * last.inc
    /\ limits.npmsec = options.nodestime
    /\ limits.time = availableNodes
    /\ availableNodes < options.nodestime * last.time

=============================================================================
